---- MODULE Spec2Model ----
(***************************************************************************)
(* State engine of the card-matching game: GameModel (the Card Ledger and  *)
(* its Move History) and the part of GameController that gates moves       *)
(* (_onCardClick, _isCovered, isMatch, _moveCardToDiscard, _onUndo) with   *)
(* the scene-graph state those handlers read and write.                    *)
(*                                                                         *)
(* Objects are modelled by value.  A CardData is a record, GameModel._cards*)
(* is a function from the ids that are keys of the Map, a position is a    *)
(* record [x, y].  A scene node of a card is named by the id of its        *)
(* CardView; the children list of an area node is a sequence of such ids.  *)
(* The card prefab is taken to carry a CardView and a UITransform, as the  *)
(* controller requires of it.                                              *)
(***************************************************************************)
EXTENDS Integers, Sequences, FiniteSets

\* ---------------------------------------------------------------- bounds
\* Largest number of layout entries (main + stack) in the controller runs.
MaxCards == 3
\* Largest number of layout entries in the runs that drive GameModel directly
\* and in the runs that use the whole face scale.
SmallCards == 2
\* Cap on the Move History length in the runs that drive GameModel directly.
MaxHistory == 2

\* ------------------------------------------------------ program constants
\* Faces are indices into kFaceNumbers ('A' .. 'K').
MaxFace == 12
\* Suits are indices into kSuitNames.
MaxSuit == 3
\* Horizontal spacing of the stock cards in _createCardNode.
StockSpacing == 100

Areas == {"main", "stock", "discard"}

ZeroPos == [x |-> 0, y |-> 0]

VARIABLES
    phase,      \* "init" before the configuration is loaded, then "loaded" or "failed"
    layout,     \* the layout document handed to loadData
    cards,      \* GameModel._cards
    history,    \* GameModel._history
    children,   \* children lists of mainCardArea, stockPile and discardPile
    nodePos,    \* position of each card node, keyed by the id of its CardView
    lastOp,     \* the last call made and what it returned
    pending,    \* successful moves not yet followed by an undo call
    net         \* successful moveCard calls less the undo calls that returned a record

vars == <<phase, layout, cards, history, children, nodePos, lastOp, pending, net>>

\* ------------------------------------------------------------- helpers
SeqsUpTo(S, n) == UNION {[1..k -> S] : k \in 0..n}

Entries(faces, suits, poss) == [CardFace : faces, CardSuit : suits, Position : poss]

\* The layout documents with at most n entries in all.
Layouts(E, n) ==
    UNION {UNION {[Playfield : [1..m -> E], Stack : [1..s -> E]] : s \in 0..(n - m)} :
           m \in 0..n}

EmptyLayout == [Playfield |-> <<>>, Stack |-> <<>>]

NoChildren == [a \in Areas |-> <<>>]

Last(s) == s[Len(s)]

Front(s) == SubSeq(s, 1, Len(s) - 1)

\* What lastOp holds: the call, its card id argument and its boolean result;
\* the record an undo returned (<<>> for null); the target area and position
\* of a moveCard call; what _isCovered answered to a click; the active
\* nodes and the overlapping nodes handed to a call of _isCovered.
Op(op, cardId, ret) ==
    [op |-> op, cardId |-> cardId, ret |-> ret, rec |-> << >>,
     area |-> "", pos |-> ZeroPos, covered |-> FALSE,
     active |-> {}, hits |-> {}]

NoOp == Op("none", -1, FALSE)

\* ------------------------------------------------------------ CardData
CardData(id, face, suit, area, pos) ==
    [id |-> id, face |-> face, suit |-> suit, area |-> area, position |-> pos]

\* ----------------------------------------------------------- GameModel
\* loadData with the discard card taken from the front of the Stack list.
loadData_firstIsDiscard(cs, jsonData) ==
    LET M == IF "Playfield" \in DOMAIN jsonData THEN Len(jsonData.Playfield) ELSE 0
        S == IF {"Playfield", "Stack"} \subseteq DOMAIN jsonData
             THEN Len(jsonData.Stack) ELSE 0
    IN  [id \in DOMAIN cs \cup (0..(M + S - 1)) |->
            IF id < M
            THEN CardData(id, jsonData.Playfield[id + 1].CardFace,
                          jsonData.Playfield[id + 1].CardSuit, "main",
                          jsonData.Playfield[id + 1].Position)
            ELSE IF id < M + S
            THEN CardData(id, jsonData.Stack[id - M + 1].CardFace,
                          jsonData.Stack[id - M + 1].CardSuit,
                          IF id - M = 0 THEN "discard" ELSE "stock",
                          jsonData.Stack[id - M + 1].Position)
            ELSE cs[id]]

\* Whether loadData raises: forEach is called on jsonData.Playfield and then
\* on jsonData.Stack, and a list that is absent is undefined.
loadDataThrows(jsonData) ==
    "Playfield" \notin DOMAIN jsonData \/ "Stack" \notin DOMAIN jsonData

\* The cards loadData leaves in cs: ids count up from 0 over Playfield and
\* then over Stack; Map.set keeps every key it does not overwrite.  The
\* cards set before it raises stay: the Playfield loop has run to its end
\* when the Stack is found absent.
loadData(cs, jsonData) ==
    LET M == IF "Playfield" \in DOMAIN jsonData THEN Len(jsonData.Playfield) ELSE 0
        S == IF {"Playfield", "Stack"} \subseteq DOMAIN jsonData
             THEN Len(jsonData.Stack) ELSE 0
        mainCard(i) ==
            LET item == jsonData.Playfield[i]
            IN  CardData(i - 1, item.CardFace, item.CardSuit, "main", item.Position)
        stackCard(i) ==
            LET item == jsonData.Stack[i]
                area == IF i - 1 = S - 1 THEN "discard" ELSE "stock"
            IN  CardData(M + i - 1, item.CardFace, item.CardSuit, area, item.Position)
    IN  [id \in DOMAIN cs \cup (0..(M + S - 1)) |->
            IF id < M THEN mainCard(id + 1)
            ELSE IF id < M + S THEN stackCard(id - M + 1)
            ELSE cs[id]]

\* moveCard that records the move before it looks the card up.
moveCard_pushFirst(cs, h, cardId, targetArea, targetPos) ==
    IF cardId \notin DOMAIN cs
    THEN [cards |-> cs,
          history |-> Append(h, [cardId |-> cardId, oldArea |-> "", oldPos |-> ZeroPos]),
          ret |-> FALSE]
    ELSE [cards |-> [cs EXCEPT ![cardId].area = targetArea,
                               ![cardId].position = targetPos],
          history |-> Append(h, [cardId |-> cardId,
                                 oldArea |-> cs[cardId].area,
                                 oldPos |-> cs[cardId].position]),
          ret |-> TRUE]

\* moveCard that also puts the cards already in the target area at the
\* target position.
moveCard_alignsArea(cs, h, cardId, targetArea, targetPos) ==
    IF cardId \notin DOMAIN cs
    THEN [cards |-> cs, history |-> h, ret |-> FALSE]
    ELSE [cards |-> [id \in DOMAIN cs |->
                        IF id = cardId
                        THEN [cs[id] EXCEPT !.area = targetArea, !.position = targetPos]
                        ELSE IF cs[id].area = targetArea
                        THEN [cs[id] EXCEPT !.position = targetPos]
                        ELSE cs[id]],
          history |-> Append(h, [cardId |-> cardId,
                                 oldArea |-> cs[cardId].area,
                                 oldPos |-> cs[cardId].position]),
          ret |-> TRUE]

\* moveCard that refuses to take a card out of the discard area.
moveCard_keepsDiscard(cs, h, cardId, targetArea, targetPos) ==
    IF cardId \notin DOMAIN cs \/ cs[cardId].area = "discard"
    THEN [cards |-> cs, history |-> h, ret |-> FALSE]
    ELSE [cards |-> [cs EXCEPT ![cardId].area = targetArea,
                               ![cardId].position = targetPos],
          history |-> Append(h, [cardId |-> cardId,
                                 oldArea |-> cs[cardId].area,
                                 oldPos |-> cs[cardId].position]),
          ret |-> TRUE]

\* moveCard on the cards cs and the history h: the new cards, the new
\* history and the value returned.
moveCard(cs, h, cardId, targetArea, targetPos) ==
    IF cardId \notin DOMAIN cs
    THEN [cards |-> cs, history |-> h, ret |-> FALSE]
    ELSE LET card == cs[cardId]
         IN  [cards |-> [cs EXCEPT ![cardId].area = targetArea,
                                   ![cardId].position = targetPos],
              history |-> Append(h, [cardId |-> card.id,
                                     oldArea |-> card.area,
                                     oldPos |-> [x |-> card.position.x,
                                                 y |-> card.position.y]]),
              ret |-> TRUE]

\* undo that restores the area of the card and leaves its position.
undo_areaOnly(cs, h) ==
    IF h = << >>
    THEN [cards |-> cs, history |-> h, ret |-> << >>]
    ELSE [cards |-> IF Last(h).cardId \in DOMAIN cs
                    THEN [cs EXCEPT ![Last(h).cardId].area = Last(h).oldArea]
                    ELSE cs,
          history |-> Front(h),
          ret |-> <<Last(h)>>]

\* undo that answers an empty history with an empty record instead of null.
undo_dummyRecord(cs, h) ==
    IF h = << >>
    THEN [cards |-> cs, history |-> h,
          ret |-> <<[cardId |-> -1, oldArea |-> "", oldPos |-> ZeroPos]>>]
    ELSE [cards |-> IF Last(h).cardId \in DOMAIN cs
                    THEN [cs EXCEPT ![Last(h).cardId].area = Last(h).oldArea,
                                    ![Last(h).cardId].position = Last(h).oldPos]
                    ELSE cs,
          history |-> Front(h),
          ret |-> <<Last(h)>>]

\* undo that builds the restored card anew from the record.
undo_rebuildsCard(cs, h) ==
    IF h = << >>
    THEN [cards |-> cs, history |-> h, ret |-> << >>]
    ELSE [cards |-> IF Last(h).cardId \in DOMAIN cs
                    THEN [cs EXCEPT ![Last(h).cardId] =
                              CardData(Last(h).cardId, 0, 0, Last(h).oldArea, Last(h).oldPos)]
                    ELSE cs,
          history |-> Front(h),
          ret |-> <<Last(h)>>]

\* undo that takes the oldest record instead of the newest.
undo_fifo(cs, h) ==
    IF h = << >>
    THEN [cards |-> cs, history |-> h, ret |-> << >>]
    ELSE [cards |-> IF Head(h).cardId \in DOMAIN cs
                    THEN [cs EXCEPT ![Head(h).cardId].area = Head(h).oldArea,
                                    ![Head(h).cardId].position = Head(h).oldPos]
                    ELSE cs,
          history |-> Tail(h),
          ret |-> <<Head(h)>>]

\* undo that reads the newest record and leaves it in the history.
undo_keepsRecord(cs, h) ==
    IF h = << >>
    THEN [cards |-> cs, history |-> h, ret |-> << >>]
    ELSE [cards |-> IF Last(h).cardId \in DOMAIN cs
                    THEN [cs EXCEPT ![Last(h).cardId].area = Last(h).oldArea,
                                    ![Last(h).cardId].position = Last(h).oldPos]
                    ELSE cs,
          history |-> h,
          ret |-> <<Last(h)>>]

\* undo on the cards cs and the history h: the new cards, the new history
\* and the record returned, <<>> standing for null.
undo(cs, h) ==
    IF h = << >>
    THEN [cards |-> cs, history |-> h, ret |-> << >>]
    ELSE LET last == Last(h)
         IN  [cards |-> IF last.cardId \in DOMAIN cs
                        THEN [cs EXCEPT ![last.cardId].area = last.oldArea,
                                        ![last.cardId].position = last.oldPos]
                        ELSE cs,
              history |-> Front(h),
              ret |-> <<last>>]

Init ==
    /\ phase = "init"
    /\ layout = EmptyLayout
    /\ cards = << >>
    /\ history = << >>
    /\ children = NoChildren
    /\ nodePos = << >>
    /\ lastOp = NoOp
    /\ pending = 0
    /\ net = 0

\* ------------------------------------------- runs of loadData alone
LoadEntries == Entries({0, MaxFace}, {0, MaxSuit}, {ZeroPos})

\* GameModel.loadData called once on a fresh GameModel; ret tells whether
\* the call returned rather than raised.
Load(l) ==
    /\ phase = "init"
    /\ phase' = IF loadDataThrows(l) THEN "failed" ELSE "loaded"
    /\ layout' = l
    /\ cards' = loadData(cards, l)
    /\ lastOp' = Op("loadData", -1, ~loadDataThrows(l))
    /\ UNCHANGED <<history, children, nodePos, pending, net>>

LoadAny ==
    /\ phase = "init"
    /\ \E l \in Layouts(LoadEntries, MaxCards) : Load(l)

\* The documents that lack the Playfield list, the Stack list or both.
MalformedLayouts(E, n) ==
    {<< >>} \cup {[Playfield |-> p] : p \in SeqsUpTo(E, n)}
            \cup {[Stack |-> q] : q \in SeqsUpTo(E, n)}

LoadMalformed ==
    /\ phase = "init"
    /\ \E l \in MalformedLayouts(LoadEntries, MaxCards) : Load(l)

NextLoad == LoadAny \/ LoadMalformed

SpecLoad == Init /\ [][NextLoad]_vars

\* The layout entry card id was made from, and the area loadData gives it.
LayoutEntry(id) ==
    IF id < Len(layout.Playfield)
    THEN layout.Playfield[id + 1]
    ELSE layout.Stack[id - Len(layout.Playfield) + 1]

LayoutArea(id) ==
    IF id < Len(layout.Playfield) THEN "main"
    ELSE IF id = Len(layout.Playfield) + Len(layout.Stack) - 1 THEN "discard"
    ELSE "stock"

\* C2. Load correctness: after loadData on a layout with M main entries and
\* S stack entries the Ledger holds exactly the ids 0..M+S-1, the main
\* entries first and then the stack entries, each in input order; every
\* main entry is in Main, the last stack entry in Discard and every other
\* stack entry in Stock.
LoadCorrect ==
    (lastOp.op = "loadData" /\ lastOp.ret) =>
        LET M == Len(layout.Playfield)
            S == Len(layout.Stack)
        IN  /\ DOMAIN cards = 0..(M + S - 1)
            /\ Cardinality(DOMAIN cards) = M + S
            /\ \A i \in 1..M :
                   /\ cards[i - 1].id = i - 1
                   /\ cards[i - 1].face = layout.Playfield[i].CardFace
                   /\ cards[i - 1].suit = layout.Playfield[i].CardSuit
                   /\ cards[i - 1].position = layout.Playfield[i].Position
                   /\ cards[i - 1].area = "main"
            /\ \A j \in 1..S :
                   /\ cards[M + j - 1].id = M + j - 1
                   /\ cards[M + j - 1].face = layout.Stack[j].CardFace
                   /\ cards[M + j - 1].suit = layout.Stack[j].CardSuit
                   /\ cards[M + j - 1].position = layout.Stack[j].Position
                   /\ cards[M + j - 1].area = IF j = S THEN "discard" ELSE "stock"

\* A layout with main entries and several stack entries, no two entries
\* next to each other alike, has been loaded.
LoadCorrectWitness ==
    /\ lastOp.op = "loadData"
    /\ lastOp.ret
    /\ Len(layout.Playfield) >= 1
    /\ Len(layout.Stack) >= 2
    /\ layout.Playfield[1] # layout.Stack[1]
    /\ layout.Stack[1] # layout.Stack[2]
    /\ cards[Len(layout.Playfield)].area = "stock"

\* ------------------------------------ runs that drive GameModel directly
\* Positions a caller passes and a layout carries: x and y differ.
ModelPos == {[x |-> 0, y |-> 1], [x |-> 1, y |-> 0]}

\* Two layout entries that differ in face, suit and position.
ModelEntries ==
    {[CardFace |-> 0, CardSuit |-> 0, Position |-> [x |-> 0, y |-> 1]],
     [CardFace |-> MaxFace, CardSuit |-> MaxSuit, Position |-> [x |-> 1, y |-> 0]]}

LoadModel ==
    /\ phase = "init"
    /\ \E l \in Layouts(ModelEntries, SmallCards) : Load(l)

\* One call GameModel.moveCard(cardId, targetArea, targetPos).
MoveCard(cardId, targetArea, targetPos) ==
    /\ phase = "loaded"
    /\ \E r \in {moveCard(cards, history, cardId, targetArea, targetPos)} :
        /\ Len(history) < MaxHistory
        /\ cards' = r.cards
        /\ history' = r.history
        /\ lastOp' = [Op("moveCard", cardId, r.ret) EXCEPT !.area = targetArea,
                                                             !.pos = targetPos]
        /\ pending' = IF r.ret THEN pending + 1 ELSE pending
        /\ net' = IF r.ret THEN net + 1 ELSE net
        /\ UNCHANGED <<phase, layout, children, nodePos>>

\* The ids a caller tries: every id of the largest layout and one beyond.
MoveCardAny ==
    \E cardId \in 0..SmallCards, targetArea \in Areas, targetPos \in ModelPos :
        MoveCard(cardId, targetArea, targetPos)

\* One call GameModel.undo().
Undo ==
    /\ phase = "loaded"
    /\ \E r \in {undo(cards, history)} :
        /\ cards' = r.cards
        /\ history' = r.history
        /\ lastOp' = [Op("undo", -1, r.ret # << >>) EXCEPT !.rec = r.ret]
        /\ pending' = IF pending > 0 THEN pending - 1 ELSE pending
        /\ net' = IF r.ret # << >> THEN net - 1 ELSE net
        /\ UNCHANGED <<phase, layout, children, nodePos>>

NextModel == LoadModel \/ MoveCardAny \/ Undo

SpecModel == Init /\ [][NextModel]_vars

\* ------------------------------------------------------ GameController
Range(s) == {s[i] : i \in 1..Len(s)}

IndexOf(s, e) == CHOOSE i \in 1..Len(s) : s[i] = e

Remove(s, e) == SelectSeq(s, LAMBDA v : v # e)

\* getCardsInArea: the cards of the area in the order of the Map, which is
\* the order of the ids.  The array holds the Ledger's own CardData objects.
RECURSIVE idsFrom(_, _, _)
idsFrom(cs, area, id) ==
    IF id \notin DOMAIN cs THEN << >>
    ELSE (IF cs[id].area = area THEN <<id>> ELSE << >>) \o idsFrom(cs, area, id + 1)

getCardsInArea(cs, area) == idsFrom(cs, area, 0)

getCardById(cs, cardId) == IF cardId \in DOMAIN cs THEN <<cs[cardId]>> ELSE << >>

\* Node.parent of the node of card id in the children lists ch ("" for null).
ParentOf(ch, id) ==
    IF \E a \in Areas : id \in Range(ch[a])
    THEN CHOOSE a \in Areas : id \in Range(ch[a])
    ELSE ""

\* removeFromParent followed by setParent(parent) and setPosition(pos).
Reparent(ch, np, id, parent, pos) ==
    [children |-> [a \in Areas |->
                      IF a = parent THEN Append(Remove(ch[a], id), id)
                      ELSE Remove(ch[a], id)],
     nodePos |-> [n \in DOMAIN np \cup {id} |-> IF n = id THEN pos ELSE np[n]]]

\* _createCardNode that shifts a copy of the card's position and leaves
\* the Ledger's card alone.
createCardNode_snapshot(st, id) ==
    LET data == st.cards[id]
        idx == Len(st.children["stock"])
        pos == IF data.area = "stock"
               THEN [data.position EXCEPT !.x = @ + idx * StockSpacing]
               ELSE data.position
    IN  IF data.area \notin Areas THEN st
        ELSE [cards |-> st.cards,
              children |-> [st.children EXCEPT ![data.area] = Append(@, id)],
              nodePos |-> [n \in DOMAIN st.nodePos \cup {id} |->
                              IF n = id THEN pos ELSE st.nodePos[n]]]

\* _createCardNode for the card id of st.cards, st being the cards, the
\* children lists and the node positions.  data is the Ledger's own object:
\* the shift of a stock card is written into the Ledger.
createCardNode(st, id) ==
    LET data == st.cards[id]
        idx == Len(st.children["stock"])
        cs == IF data.area = "stock"
              THEN [st.cards EXCEPT ![id].position.x = @ + idx * StockSpacing]
              ELSE st.cards
    IN  IF data.area \notin Areas THEN st
        ELSE [cards |-> cs,
              children |-> [st.children EXCEPT ![data.area] = Append(@, id)],
              nodePos |-> [n \in DOMAIN st.nodePos \cup {id} |->
                              IF n = id THEN cs[id].position ELSE st.nodePos[n]]]

RECURSIVE createNodes(_, _)
createNodes(st, ids) ==
    IF ids = << >> THEN st
    ELSE createNodes(createCardNode(st, Head(ids)), Tail(ids))

\* _createAllCards: the areas in the order 'main', 'stock', 'discard'.
createAllCards(st) ==
    LET afterMain == createNodes(st, getCardsInArea(st.cards, "main"))
        afterStock == createNodes(afterMain, getCardsInArea(afterMain.cards, "stock"))
    IN  createNodes(afterStock, getCardsInArea(afterStock.cards, "discard"))

\* _isCovered that looks at every other child of the parent.
isCovered_anySibling(ch, id, active, hits) ==
    LET parent == ParentOf(ch, id)
    IN  IF parent = "" THEN FALSE
        ELSE \E i \in 1..Len(ch[parent]) :
                 /\ ch[parent][i] # id
                 /\ ch[parent][i] \in active
                 /\ ch[parent][i] \in hits

\* _isCovered for the node of card id: active is the set of nodes whose
\* active flag is set and hits the set of nodes whose bounding box
\* intersects that of the node, both as the engine reports them.
isCovered(ch, id, active, hits) ==
    LET parent == ParentOf(ch, id)
    IN  IF parent = "" THEN FALSE
        ELSE LET siblings == ch[parent]
                 currentIdx == IndexOf(siblings, id)
             IN  \E i \in (currentIdx + 1)..Len(siblings) :
                     siblings[i] \in active /\ siblings[i] \in hits

Abs(n) == IF n < 0 THEN -n ELSE n

\* isMatch that takes the face scale as a cycle, K next to A.
isMatch_wrap(cs, ch, cardId) ==
    IF Len(ch["discard"]) = 0 \/ cardId \notin DOMAIN cs THEN FALSE
    ELSE Abs(cs[cardId].face - cs[Last(ch["discard"])].face) \in {1, MaxFace}

\* isMatch reads the top of the discard pile off the scene graph.
isMatch(cs, ch, cardId) ==
    LET discardChildren == ch["discard"]
    IN  IF Len(discardChildren) = 0 THEN FALSE
        ELSE LET topFace == cs[Last(discardChildren)].face
             IN  IF cardId \notin DOMAIN cs THEN FALSE
                 ELSE Abs(cs[cardId].face - topFace) = 1

\* _moveCardToDiscard on st, the cards, history, children lists and node
\* positions; ret tells whether moveCard succeeded.
moveCardToDiscard(st, cardId) ==
    LET r == moveCard(st.cards, st.history, cardId, "discard", ZeroPos)
        v == IF r.ret /\ cardId \in DOMAIN st.nodePos
             THEN Reparent(st.children, st.nodePos, cardId, "discard", ZeroPos)
             ELSE [children |-> st.children, nodePos |-> st.nodePos]
    IN  [cards |-> r.cards, history |-> r.history,
         children |-> v.children, nodePos |-> v.nodePos, ret |-> r.ret]

\* _onCardClick that looks for occlusion in the main area alone.
onCardClick_stockNeverCovered(st, id, active, hits) ==
    LET parent == ParentOf(st.children, id)
        rejected == [cards |-> st.cards, history |-> st.history,
                     children |-> st.children, nodePos |-> st.nodePos, ret |-> FALSE]
    IN  IF parent = "discard" THEN rejected
        ELSE IF parent = "stock" THEN moveCardToDiscard(st, id)
        ELSE IF parent = "main"
             THEN IF /\ ~isCovered(st.children, id, active, hits)
                     /\ isMatch(st.cards, st.children, id)
                  THEN moveCardToDiscard(st, id)
                  ELSE rejected
        ELSE rejected

\* _onCardClick that takes every node outside the stock pile for a main card.
onCardClick_elseIsMain(st, id, active, hits) ==
    LET parent == ParentOf(st.children, id)
        rejected == [cards |-> st.cards, history |-> st.history,
                     children |-> st.children, nodePos |-> st.nodePos, ret |-> FALSE]
    IN  IF isCovered(st.children, id, active, hits) THEN rejected
        ELSE IF parent = "stock" THEN moveCardToDiscard(st, id)
        ELSE IF isMatch(st.cards, st.children, id)
             THEN moveCardToDiscard(st, id)
             ELSE rejected

\* _onCardClick that asks for a match of the stock cards too.
onCardClick_stockNeedsMatch(st, id, active, hits) ==
    LET parent == ParentOf(st.children, id)
        rejected == [cards |-> st.cards, history |-> st.history,
                     children |-> st.children, nodePos |-> st.nodePos, ret |-> FALSE]
    IN  IF isCovered(st.children, id, active, hits) THEN rejected
        ELSE IF parent = "discard" THEN rejected
        ELSE IF parent \in {"stock", "main"} /\ isMatch(st.cards, st.children, id)
             THEN moveCardToDiscard(st, id)
             ELSE rejected

\* _onCardClick that lets every uncovered main card go to the discard pile.
onCardClick_mainAlwaysMoves(st, id, active, hits) ==
    LET parent == ParentOf(st.children, id)
        rejected == [cards |-> st.cards, history |-> st.history,
                     children |-> st.children, nodePos |-> st.nodePos, ret |-> FALSE]
    IN  IF isCovered(st.children, id, active, hits) THEN rejected
        ELSE IF parent = "discard" THEN rejected
        ELSE IF parent \in {"stock", "main"} THEN moveCardToDiscard(st, id)
        ELSE rejected

\* _onCardClick that sends a card touched on the discard pile back to the
\* stock.
onCardClick_discardRecycles(st, id, active, hits) ==
    LET parent == ParentOf(st.children, id)
        rejected == [cards |-> st.cards, history |-> st.history,
                     children |-> st.children, nodePos |-> st.nodePos, ret |-> FALSE]
        r == moveCard(st.cards, st.history, id, "stock", ZeroPos)
        v == Reparent(st.children, st.nodePos, id, "stock", ZeroPos)
    IN  IF isCovered(st.children, id, active, hits) THEN rejected
        ELSE IF parent = "discard"
             THEN [cards |-> r.cards, history |-> r.history,
                   children |-> v.children, nodePos |-> v.nodePos, ret |-> r.ret]
        ELSE IF parent = "stock" THEN moveCardToDiscard(st, id)
        ELSE IF parent = "main"
             THEN IF isMatch(st.cards, st.children, id)
                  THEN moveCardToDiscard(st, id)
                  ELSE rejected
        ELSE rejected

\* _onCardClick on the node of card id; ret tells whether the card moved.
onCardClick(st, id, active, hits) ==
    LET parent == ParentOf(st.children, id)
        rejected == [cards |-> st.cards, history |-> st.history,
                     children |-> st.children, nodePos |-> st.nodePos, ret |-> FALSE]
    IN  IF isCovered(st.children, id, active, hits) THEN rejected
        ELSE IF parent = "discard" THEN rejected
        ELSE IF parent = "stock" THEN moveCardToDiscard(st, id)
        ELSE IF parent = "main"
             THEN IF isMatch(st.cards, st.children, id)
                  THEN moveCardToDiscard(st, id)
                  ELSE rejected
        ELSE rejected

\* _getNodeForArea, "" standing for null.
getNodeForArea(area) == IF area \in Areas THEN area ELSE ""

\* _onUndo that leaves the node of the card where it is.
onUndo_keepsNode(st) ==
    [cards |-> undo(st.cards, st.history).cards,
     history |-> undo(st.cards, st.history).history,
     children |-> st.children, nodePos |-> st.nodePos,
     ret |-> undo(st.cards, st.history).ret]

\* _onUndo on st; ret is the record GameModel.undo returned.
onUndo(st) ==
    LET r == undo(st.cards, st.history)
        v == IF /\ r.ret # << >>
                /\ r.ret[1].cardId \in DOMAIN st.nodePos
                /\ getNodeForArea(r.ret[1].oldArea) # ""
             THEN Reparent(st.children, st.nodePos, r.ret[1].cardId,
                           getNodeForArea(r.ret[1].oldArea), r.ret[1].oldPos)
             ELSE [children |-> st.children, nodePos |-> st.nodePos]
    IN  [cards |-> r.cards, history |-> r.history,
         children |-> v.children, nodePos |-> v.nodePos, ret |-> r.ret]

State == [cards |-> cards, history |-> history, children |-> children, nodePos |-> nodePos]

\* The callback of _loadConfig when the configuration has loaded.
LoadConfig(l) ==
    /\ phase = "init"
    /\ \E st \in {createAllCards([cards |-> loadData(cards, l),
                                  children |-> children, nodePos |-> nodePos])} :
        /\ phase' = "loaded"
        /\ layout' = l
        /\ cards' = st.cards
        /\ children' = st.children
        /\ nodePos' = st.nodePos
        /\ lastOp' = Op("loadConfig", -1, TRUE)
        /\ UNCHANGED <<history, pending, net>>

\* The callback of _loadConfig when the load has failed.
LoadConfigError ==
    /\ phase = "init"
    /\ phase' = "failed"
    /\ lastOp' = Op("loadConfig", -1, FALSE)
    /\ UNCHANGED <<layout, cards, history, children, nodePos, pending, net>>

\* A touch on the node of card id, with what the engine reports about the
\* other nodes under the same parent.
CardClick(id, active, hits) ==
    /\ phase = "loaded"
    /\ id \in DOMAIN nodePos
    /\ \E r \in {onCardClick(State, id, active, hits)} :
        /\ cards' = r.cards
        /\ history' = r.history
        /\ children' = r.children
        /\ nodePos' = r.nodePos
        /\ lastOp' = [Op("click", id, r.ret) EXCEPT
                        !.covered = isCovered(children, id, active, hits)]
        /\ pending' = IF r.ret THEN pending + 1 ELSE pending
        /\ net' = IF r.ret THEN net + 1 ELSE net
        /\ UNCHANGED <<phase, layout>>

Siblings(id) == Range(children[ParentOf(children, id)]) \ {id}

AtMostOne(S) == {{}} \cup {{e} : e \in S}

\* The engine's report about the other nodes under the parent of the node
\* touched: at most one of them inactive, at most one of them overlapping.
CardClickAny ==
    \E id \in DOMAIN nodePos :
        \E inactive \in AtMostOne(Siblings(id)), hits \in AtMostOne(Siblings(id)) :
            CardClick(id, Siblings(id) \ inactive, hits)

\* A touch on a node that nothing overlaps.
CardClickClear == \E id \in DOMAIN nodePos : CardClick(id, Siblings(id), {})

\* A press of the undo button.
UndoClick ==
    /\ phase = "loaded"
    /\ \E r \in {onUndo(State)} :
        /\ cards' = r.cards
        /\ history' = r.history
        /\ children' = r.children
        /\ nodePos' = r.nodePos
        /\ lastOp' = [Op("undo", -1, r.ret # << >>) EXCEPT !.rec = r.ret]
        /\ pending' = IF pending > 0 THEN pending - 1 ELSE pending
        /\ net' = IF r.ret # << >> THEN net - 1 ELSE net
        /\ UNCHANGED <<phase, layout>>

\* --------------------------------------------- runs of the controller
GameFaces == {0, 1, 3}

GamePos == {[x |-> 1, y |-> 2]}

GameEntries == Entries(GameFaces, {0}, GamePos)

LoadGame ==
    /\ phase = "init"
    /\ \E l \in Layouts(GameEntries, MaxCards) : LoadConfig(l)

NextGame == LoadGame \/ LoadConfigError \/ CardClickAny \/ UndoClick

SpecGame == Init /\ [][NextGame]_vars

\* ------------------- runs of the controller over the whole face scale
MatchEntries == Entries(0..MaxFace, {0}, GamePos)

LoadMatch ==
    /\ phase = "init"
    /\ \E l \in Layouts(MatchEntries, SmallCards) : LoadConfig(l)

\* A call isMatch(cardId) from outside the click handler, at any time.
IsMatchCall(cardId) ==
    /\ lastOp' = Op("isMatch", cardId, isMatch(cards, children, cardId))
    /\ UNCHANGED <<phase, layout, cards, history, children, nodePos, pending, net>>

IsMatchAny == \E cardId \in 0..SmallCards : IsMatchCall(cardId)

NextMatch == LoadMatch \/ LoadConfigError \/ CardClickClear \/ UndoClick \/ IsMatchAny

SpecMatch == Init /\ [][NextMatch]_vars

\* ------------------------- runs of the controller with calls of _isCovered
CoverEntries == Entries({0}, {0}, GamePos)

LoadCover ==
    /\ phase = "init"
    /\ \E l \in Layouts(CoverEntries, MaxCards) : LoadConfig(l)

\* A call _isCovered(node of card id) at any time after the cards are
\* created, the engine reporting any of the other nodes as active and any
\* of them as overlapping the node.
IsCoveredCall(id, active, hits) ==
    /\ phase = "loaded"
    /\ id \in DOMAIN nodePos
    /\ lastOp' = [Op("isCovered", id, isCovered(children, id, active, hits)) EXCEPT
                    !.active = active, !.hits = hits]
    /\ UNCHANGED <<phase, layout, cards, history, children, nodePos, pending, net>>

IsCoveredAny ==
    \E id \in DOMAIN nodePos :
        \E active \in SUBSET (DOMAIN nodePos \ {id}), hits \in SUBSET (DOMAIN nodePos \ {id}) :
            IsCoveredCall(id, active, hits)

NextCover == LoadCover \/ LoadConfigError \/ CardClickClear \/ UndoClick \/ IsCoveredAny

SpecCover == Init /\ [][NextCover]_vars

\* C1. Move/undo inverse law: once every successful move made since the
\* load has been followed by an undo call, the Move History is empty and
\* every card has the zone and the position the layout gave it.
InverseLaw ==
    (phase = "loaded" /\ pending = 0) =>
        /\ history = << >>
        /\ \A id \in DOMAIN cards :
               /\ cards[id].area = LayoutArea(id)
               /\ cards[id].position = LayoutEntry(id).Position

\* The undo call that closes a sequence of moves has returned a record, on
\* a Ledger of several cards.
InverseLawWitness ==
    /\ lastOp.op = "undo"
    /\ lastOp.ret
    /\ pending = 0
    /\ Cardinality(DOMAIN cards) >= 2

\* C3. Move atomicity: moveCard with an id that is not in the Ledger
\* returns failure and changes neither the cards nor the Move History.
MoveAtomicity ==
    [][(lastOp'.op = "moveCard" /\ lastOp'.cardId \notin DOMAIN cards) =>
          /\ ~lastOp'.ret
          /\ cards' = cards
          /\ history' = history]_vars

\* moveCard has failed on a Ledger that holds cards and a non-empty history.
MoveAtomicityWitness ==
    /\ lastOp.op = "moveCard"
    /\ ~lastOp.ret
    /\ lastOp.cardId \notin DOMAIN cards
    /\ cards # << >>
    /\ history # << >>

\* C4. Undo on an empty Move History returns null and changes nothing,
\* each time it is called.
UndoOnEmpty ==
    [][(lastOp'.op = "undo" /\ history = << >>) =>
          /\ lastOp'.rec = << >>
          /\ ~lastOp'.ret
          /\ cards' = cards
          /\ history' = << >>]_vars

\* undo has been called on the empty history of a Ledger that holds cards,
\* and has returned null.
UndoOnEmptyWitness ==
    /\ lastOp.op = "undo"
    /\ ~lastOp.ret
    /\ history = << >>
    /\ cards # << >>

\* C5. moveCard is a mechanism without policy: it succeeds exactly when
\* the id exists, and then it pushes one Move Record holding the id and the
\* zone and position the card had, and gives the card the target zone and
\* position, whatever zone the card was in.
MoveMechanism ==
    [][lastOp'.op = "moveCard" =>
          LET c == lastOp'.cardId
          IN  /\ lastOp'.ret <=> c \in DOMAIN cards
              /\ c \in DOMAIN cards =>
                     /\ history' = Append(history,
                                          [cardId |-> c,
                                           oldArea |-> cards[c].area,
                                           oldPos |-> cards[c].position])
                     /\ cards'[c].area = lastOp'.area
                     /\ cards'[c].position = lastOp'.pos]_vars

\* A card has been moved out of Discard into another zone.
MoveMechanismWitness ==
    /\ lastOp.op = "moveCard"
    /\ lastOp.ret
    /\ Last(history).oldArea = "discard"
    /\ cards[lastOp.cardId].area = "main"
    /\ cards[lastOp.cardId].position # Last(history).oldPos

\* The card loadData puts in Discard: the last stack entry.
LoadedDiscard == Len(layout.Playfield) + Len(layout.Stack) - 1

\* The Ledger's top of Discard: the card of the latest move that has not
\* been undone, or the loaded Discard card when there is none.
LedgerTop == IF history # << >> THEN Last(history).cardId ELSE LoadedDiscard

DiscardZone == {id \in DOMAIN cards : cards[id].area = "discard"}

LinearNeighbours(a, b) == a = b + 1 \/ b = a + 1

\* C6. isMatch(cardId) is true exactly when the Discard zone is non-empty,
\* the id is in the Ledger and its face and the face of the top Discard
\* card are neighbours on the linear scale 0..12: never for equal faces,
\* never for the faces 0 and 12, and false when Discard is empty or the id
\* does not resolve.
MatchRule ==
    lastOp.op = "isMatch" =>
        LET c == lastOp.cardId
        IN  /\ lastOp.ret <=>
                  /\ DiscardZone # {}
                  /\ c \in DOMAIN cards
                  /\ LinearNeighbours(cards[c].face, cards[LedgerTop].face)
            /\ (DiscardZone = {} \/ c \notin DOMAIN cards) => ~lastOp.ret
            /\ (DiscardZone # {} /\ c \in DOMAIN cards) =>
                  /\ cards[c].face = cards[LedgerTop].face => ~lastOp.ret
                  /\ {cards[c].face, cards[LedgerTop].face} = {0, MaxFace} => ~lastOp.ret

\* isMatch has answered false for an ace against a king on top of Discard.
MatchRuleWitness ==
    /\ lastOp.op = "isMatch"
    /\ ~lastOp.ret
    /\ lastOp.cardId \in DOMAIN cards
    /\ DiscardZone # {}
    /\ cards[lastOp.cardId].face = 0
    /\ cards[LedgerTop].face = MaxFace

\* C7. Discard-top tracking: after a load with a stack entry the card
\* isMatch compares against, the last child of the discard pile, is the
\* card of the latest move not undone, or the loaded Discard card when no
\* move remains.
DiscardTopTracking ==
    (phase = "loaded" /\ Len(layout.Stack) >= 1) =>
        /\ children["discard"] # << >>
        /\ Last(children["discard"]) = LedgerTop

\* An undo has taken the top card off Discard and left an earlier move in
\* the history.
DiscardTopTrackingWitness ==
    /\ lastOp.op = "undo"
    /\ lastOp.ret
    /\ history # << >>
    /\ Last(children["discard"]) = Last(history).cardId
    /\ Last(children["discard"]) # LoadedDiscard

\* C8. Occlusion blocks every move: a click _isCovered reports occluded
\* moves nothing and pushes no Move Record, whatever the zone and the face.
OcclusionBlocks ==
    [][(lastOp'.op = "click" /\ lastOp'.covered) =>
          /\ ~lastOp'.ret
          /\ cards' = cards
          /\ history' = history]_vars

\* An occluded Main card whose face matches the top of Discard has been
\* clicked.
OcclusionBlocksWitness ==
    /\ lastOp.op = "click"
    /\ lastOp.covered
    /\ cards[lastOp.cardId].area = "main"
    /\ isMatch(cards, children, lastOp.cardId)

\* C9. Cards never leave Discard by a move: a click on a card in Discard
\* changes neither the Ledger nor the Move History, and a card leaves
\* Discard only when undo pops the record of its move, the top record.
DiscardIsFinal ==
    [][/\ (lastOp'.op = "click" /\ cards[lastOp'.cardId].area = "discard") =>
              /\ ~lastOp'.ret
              /\ cards' = cards
              /\ history' = history
       /\ \A c \in DOMAIN cards :
              (cards[c].area = "discard" /\ cards'[c].area # "discard") =>
                  /\ lastOp'.op = "undo"
                  /\ history # << >>
                  /\ lastOp'.rec = <<Last(history)>>
                  /\ Last(history).cardId = c
                  /\ Last(history).oldArea # "discard"
                  /\ history' = Front(history)]_vars

\* A card lying in Discard under a top card of a neighbouring face, with
\* nothing over it, has been clicked.
DiscardIsFinalWitness ==
    /\ lastOp.op = "click"
    /\ ~lastOp.covered
    /\ cards[lastOp.cardId].area = "discard"
    /\ lastOp.cardId # Last(children["discard"])
    /\ isMatch(cards, children, lastOp.cardId)

\* C10. Stock advances unconditionally: a click on a Stock card that is
\* not occluded moves it to Discard and pushes one Move Record holding
\* Stock and the position the card had, whatever the faces.
StockAdvances ==
    [][(/\ lastOp'.op = "click"
        /\ ~lastOp'.covered
        /\ cards[lastOp'.cardId].area = "stock") =>
          LET c == lastOp'.cardId
          IN  /\ lastOp'.ret
              /\ cards'[c].area = "discard"
              /\ history' = Append(history, [cardId |-> c,
                                             oldArea |-> "stock",
                                             oldPos |-> cards[c].position])]_vars

\* The second card of the stock pile has gone to Discard onto a card whose
\* face is no neighbour of its own.
StockAdvancesWitness ==
    /\ lastOp.op = "click"
    /\ lastOp.ret
    /\ Last(history).oldArea = "stock"
    /\ Last(history).oldPos.x >= StockSpacing
    /\ Len(children["discard"]) >= 2
    /\ ~LinearNeighbours(cards[lastOp.cardId].face,
                         cards[children["discard"][Len(children["discard"]) - 1]].face)

\* The card that was on top of Discard when the i-th record of the history
\* was pushed.
TopBefore(i) == IF i > 1 THEN history[i - 1].cardId ELSE LoadedDiscard

\* C11. Main cards move only on a match: a click on a Main card that is
\* not occluded moves it to Discard exactly when Discard is non-empty and
\* its face is a neighbour of the face of the top Discard card, and changes
\* neither the Ledger nor the Move History otherwise; so every Move Record
\* whose previous zone is Main belongs to a card whose face is a neighbour
\* of the face of the card that was on top when it was pushed.
MainNeedsMatch ==
    [][/\ (/\ lastOp'.op = "click"
           /\ ~lastOp'.covered
           /\ cards[lastOp'.cardId].area = "main") =>
              LET c == lastOp'.cardId
              IN  IF /\ DiscardZone # {}
                     /\ LinearNeighbours(cards[c].face, cards[LedgerTop].face)
                  THEN /\ lastOp'.ret
                       /\ cards'[c].area = "discard"
                       /\ history' = Append(history, [cardId |-> c,
                                                      oldArea |-> "main",
                                                      oldPos |-> cards[c].position])
                  ELSE /\ ~lastOp'.ret
                       /\ cards' = cards
                       /\ history' = history
       /\ \A i \in 1..Len(history') :
              history'[i].oldArea = "main" =>
                  LinearNeighbours(cards'[history'[i].cardId].face,
                                   cards'[IF i > 1 THEN history'[i - 1].cardId
                                          ELSE LoadedDiscard'].face)]_vars

\* After a Main card has gone to Discard on a match, a click on another
\* Main card, not occluded and of no neighbouring face, has been turned down.
MainNeedsMatchWitness ==
    /\ lastOp.op = "click"
    /\ ~lastOp.covered
    /\ ~lastOp.ret
    /\ cards[lastOp.cardId].area = "main"
    /\ history # << >>
    /\ Last(history).oldArea = "main"
    /\ LinearNeighbours(cards[Last(history).cardId].face, cards[TopBefore(Len(history))].face)

\* C12. Query results are value snapshots: what a caller does to the cards
\* it got from getCardsInArea or getCardById does not reach the Ledger,
\* which changes only through moveCard and undo; so as long as the
\* controller has made neither call, the Ledger is what loadData made of
\* the layout.
QueriesAreSnapshots ==
    (lastOp.op = "loadConfig" /\ lastOp.ret) => cards = loadData(<< >>, layout)

\* C13. Load is all-or-nothing and silent on malformed input: loadData on a
\* layout that lacks the Playfield list or the Stack list raises nothing
\* and leaves the Ledger with no cards, also when the Playfield list is
\* there and the Stack list is not.
LoadAllOrNothing ==
    (lastOp.op = "loadData" /\ ~({"Playfield", "Stack"} \subseteq DOMAIN layout)) =>
        /\ lastOp.ret
        /\ cards = << >>

\* C14. Fixed card set: through every sequence of moveCard and undo calls,
\* successful or not, the Ledger holds the ids loadData gave out and no
\* others, and the card under each id keeps that id and the face and suit
\* of the layout entry it was made from; only area and position change.
FixedCardSet ==
    phase = "loaded" =>
        /\ DOMAIN cards = 0..(Len(layout.Playfield) + Len(layout.Stack) - 1)
        /\ \A id \in DOMAIN cards :
               /\ cards[id].id = id
               /\ cards[id].face = LayoutEntry(id).CardFace
               /\ cards[id].suit = LayoutEntry(id).CardSuit

\* A card of the highest face and suit, loaded beside a card of face 0, has
\* been moved away from its loaded area and position and put back by undo.
FixedCardSetWitness ==
    /\ lastOp.op = "undo"
    /\ lastOp.ret
    /\ cards[lastOp.rec[1].cardId].face = MaxFace
    /\ cards[lastOp.rec[1].cardId].suit = MaxSuit
    /\ \E id \in DOMAIN cards : cards[id].face = 0
    /\ pending = 0

\* C15. Undo is LIFO and exact: a successful moveCard puts at the end of
\* the history a record of the area and position the card had just before
\* the call and leaves the records before it as they were; undo on a
\* non-empty history removes and returns the last record, sets the card of
\* that record to the record's area and position, and leaves the older
\* records in their order, unchanged.
UndoIsLifo ==
    [][/\ (lastOp'.op = "moveCard" /\ lastOp'.ret) =>
              /\ history' # << >>
              /\ Front(history') = history
              /\ Last(history') = [cardId |-> lastOp'.cardId,
                                   oldArea |-> cards[lastOp'.cardId].area,
                                   oldPos |-> cards[lastOp'.cardId].position]
       /\ (lastOp'.op = "undo" /\ history # << >>) =>
              /\ lastOp'.rec = <<Last(history)>>
              /\ history' = Front(history)
              /\ cards'[Last(history).cardId].area = Last(history).oldArea
              /\ cards'[Last(history).cardId].position = Last(history).oldPos]_vars

\* undo has returned the newer of two records that differ in card, area
\* and position, and the older one is what the history still holds.
UndoIsLifoWitness ==
    /\ lastOp.op = "undo"
    /\ lastOp.ret
    /\ Len(history) = 1
    /\ history[1].cardId # lastOp.rec[1].cardId
    /\ history[1].oldArea # lastOp.rec[1].oldArea
    /\ history[1].oldPos # lastOp.rec[1].oldPos

\* C16. History length accounting: the length of the Move History is the
\* number of successful moveCard calls less the number of undo calls that
\* returned a record; it is never negative, failed moves and undos on an
\* empty history leave it alone, and it is zero exactly when every
\* successful move has been undone.
HistoryAccounting ==
    /\ Len(history) = net
    /\ net >= 0
    /\ (history = << >>) <=> (net = 0)

\* A moveCard call has failed while the history held the one record of
\* an earlier call that succeeded.
HistoryAccountingWitness ==
    /\ lastOp.op = "moveCard"
    /\ ~lastOp.ret
    /\ net = 1
    /\ Len(history) = 1
    /\ cards[history[1].cardId].position # history[1].oldPos

\* C19. Single-card frame: a successful moveCard changes the area and the
\* position of the card it names and of no other card; a successful undo
\* changes the card of the record it popped and no other card.
SingleCardFrame ==
    [][/\ (lastOp'.op = "moveCard" /\ lastOp'.ret) =>
              /\ DOMAIN cards' = DOMAIN cards
              /\ \A id \in DOMAIN cards \ {lastOp'.cardId} : cards'[id] = cards[id]
       /\ (lastOp'.op = "undo" /\ lastOp'.ret) =>
              /\ DOMAIN cards' = DOMAIN cards
              /\ \A id \in DOMAIN cards \ {lastOp'.rec[1].cardId} : cards'[id] = cards[id]]_vars

\* A card has been moved into an area where another card lies at another
\* position, and a move of one card has been undone while another card was
\* away from where it was loaded.
SingleCardFrameWitness ==
    /\ lastOp.op = "undo"
    /\ lastOp.ret
    /\ \E id \in DOMAIN cards :
           /\ id # lastOp.rec[1].cardId
           /\ cards[id].area = lastOp.rec[1].oldArea
           /\ cards[id].position # lastOp.rec[1].oldPos
           /\ cards[id].position # LayoutEntry(id).Position

\* C18. Discard is never empty after game start: once a layout with at
\* least one stack entry is loaded, in every state reached by clicks and
\* undo presses Discard holds at least one card, and the card loaded into
\* Discard is still there.
DiscardNeverEmpty ==
    (phase = "loaded" /\ Len(layout.Stack) >= 1) =>
        /\ DiscardZone # {}
        /\ LoadedDiscard \in DiscardZone
        /\ children["discard"] # << >>

\* Two cards have gone to Discard on top of the loaded one and an undo has
\* taken the upper one back.
DiscardNeverEmptyWitness ==
    /\ lastOp.op = "undo"
    /\ lastOp.ret
    /\ history # << >>
    /\ Cardinality(DiscardZone) = 2
    /\ cards[lastOp.rec[1].cardId].area # "discard"

\* C20. View/Ledger consistency: in every state reached by clicks and undo
\* presses each card has exactly one node, the node is a child of the area
\* node of the card's Ledger area, and the node's position is the card's
\* Ledger position.
ViewMatchesLedger ==
    phase = "loaded" =>
        /\ DOMAIN nodePos = DOMAIN cards
        /\ \A id \in DOMAIN cards :
               /\ \A a \in Areas :
                      Cardinality({i \in DOMAIN children[a] : children[a][i] = id}) =
                          (IF a = cards[id].area THEN 1 ELSE 0)
               /\ nodePos[id] = cards[id].position

\* A stock card that was laid out to the right of the first one has gone to
\* the discard pile and come back by undo, while another card lies on the
\* discard pile on top of the loaded one.
ViewMatchesLedgerWitness ==
    /\ lastOp.op = "undo"
    /\ lastOp.ret
    /\ lastOp.rec[1].oldArea = "stock"
    /\ lastOp.rec[1].oldPos.x >= StockSpacing
    /\ nodePos[lastOp.rec[1].cardId] = lastOp.rec[1].oldPos
    /\ Len(children["discard"]) >= 2

\* Whether the node of card o comes after the node of card id in the
\* stacking order of the area node they are both under.
PlacedAfter(o, id) ==
    \E a \in Areas :
        \E i, j \in DOMAIN children[a] :
            children[a][i] = id /\ children[a][j] = o /\ i < j

\* C17. Occlusion rule: whatever stacking order, activity flags and overlap
\* relation the presentation layer supplies, a card is reported occluded
\* if and only if some other card of its zone that was placed after it is
\* active and overlaps it; earlier siblings and cards of other zones never
\* occlude it.
OcclusionRule ==
    lastOp.op = "isCovered" =>
        (lastOp.ret <=>
            \E o \in DOMAIN cards \ {lastOp.cardId} :
                /\ cards[o].area = cards[lastOp.cardId].area
                /\ PlacedAfter(o, lastOp.cardId)
                /\ o \in lastOp.active
                /\ o \in lastOp.hits)

\* A card that went to the discard pile and came back by undo, so that it
\* now lies after a sibling of a lower id, is reported not occluded though
\* that earlier sibling and a card of another zone are active and overlap it.
OcclusionRuleWitness ==
    /\ lastOp.op = "isCovered"
    /\ ~lastOp.ret
    /\ \E o \in lastOp.active \cap lastOp.hits :
           /\ PlacedAfter(lastOp.cardId, o)
           /\ o > lastOp.cardId
    /\ \E o \in lastOp.active \cap lastOp.hits :
           cards[o].area # cards[lastOp.cardId].area

====
